---- MODULE Spec2Model ----
(***************************************************************************)
(* Model of terraform/python/lambda_index.py: the AWS Lambda that indexes  *)
(* the faces of images uploaded to S3 with Rekognition index_faces() and   *)
(* persists one item per face to DynamoDB.                                  *)
(*                                                                         *)
(* One invocation of lambda_handler(event, context) is modelled (Spec),   *)
(* and two interleaved invocations sharing the table (SpecConc).  The     *)
(* three boto3 collaborators (S3 object metadata, Rekognition index_faces, *)
(* DynamoDB put_item) answer nondeterministically: each call either        *)
(* returns a value drawn from a small pool or raises one of the exceptions *)
(* the service can raise.  Strings that the handler transforms (object     *)
(* keys, metadata keys) are tuples of one-character strings.               *)
(***************************************************************************)
EXTENDS Integers, Sequences, FiniteSets, TLC

VARIABLES
    event,           \* the notification passed to lambda_handler
    pc,              \* position of the handler
    outcome,         \* how the invocation ended (return value or raised exception)
    s3_bucket_name,  \* local of lambda_handler (line 77)
    idx,             \* position of the `for record in records` loop (line 78)
    key,             \* local of lambda_handler (line 79)
    object_metadata, \* local of lambda_handler (line 82)
    metadata,        \* local of lambda_handler (line 106)
    faces,           \* faces["FaceRecords"] of the last index_faces response
    faceIdx,         \* position of the `for face in faces["FaceRecords"]` loop
    calls,           \* every collaborator call issued so far, in order
    table,           \* items written to the DynamoDB table, in order
    other,           \* locals of a second invocation that is not running now
    who              \* which invocation the variables above belong to

vars == << event, pc, outcome, s3_bucket_name, idx, key, object_metadata,
           metadata, faces, faceIdx, calls, table, other, who >>

----------------------------------------------------------------------------
(* Bounds and configuration *)

\* longest Records list of a notification
MaxRecords == 2

\* line 40: MAX_FACES, read from the environment variable MAX_FACES_COUNT;
\* the deployment modelled sets it to 2
MAX_FACES == 2

----------------------------------------------------------------------------
(* Strings *)

\* "x-amz-meta-"
MetaPrefix == << "x", "-", "a", "m", "z", "-", "m", "e", "t", "a", "-" >>

\* str.replace(old, new): leftmost, non-overlapping occurrences, from p on
RECURSIVE ReplaceFrom(_, _, _, _)
ReplaceFrom(s, old, new, p) ==
    IF p > Len(s) THEN << >>
    ELSE IF p + Len(old) - 1 <= Len(s) /\ SubSeq(s, p, p + Len(old) - 1) = old
         THEN new \o ReplaceFrom(s, old, new, p + Len(old))
         ELSE << s[p] >> \o ReplaceFrom(s, old, new, p + 1)

Replace(s, old, new) == ReplaceFrom(s, old, new, 1)

\* printable ASCII, code points 32..126 (the grave accent, 96, is spelled out)
Ascii == << " ", "!", "\"", "#", "$", "%", "&", "'", "(", ")", "*", "+", ",",
            "-", ".", "/", "0", "1", "2", "3", "4", "5", "6", "7", "8", "9",
            ":", ";", "<", "=", ">", "?", "@", "A", "B", "C", "D", "E", "F",
            "G", "H", "I", "J", "K", "L", "M", "N", "O", "P", "Q", "R", "S",
            "T", "U", "V", "W", "X", "Y", "Z", "[", "\\", "]", "^", "_", "GRAVE",
            "a", "b", "c", "d", "e", "f", "g", "h", "i", "j", "k", "l", "m",
            "n", "o", "p", "q", "r", "s", "t", "u", "v", "w", "x", "y", "z",
            "{", "|", "}", "~" >>

HexDigits == << "0", "1", "2", "3", "4", "5", "6", "7", "8", "9",
                "A", "B", "C", "D", "E", "F" >>
HexLower == << "0", "1", "2", "3", "4", "5", "6", "7", "8", "9",
               "a", "b", "c", "d", "e", "f" >>

IsHex(c) == \E n \in 1..16 : HexDigits[n] = c \/ HexLower[n] = c
HexVal(c) == (CHOOSE n \in 1..16 : HexDigits[n] = c \/ HexLower[n] = c) - 1

\* the character a decoded byte stands for; a byte outside printable ASCII is
\* shown as an escape token (the keys of the model only escape ASCII)
Chr(b) == IF b >= 32 /\ b <= 126 THEN Ascii[b - 31]
          ELSE IF b >= 128 THEN "\\ufffd" ELSE "\\x"

\* urllib.parse.unquote: "%XY" with two hex digits becomes the byte, any
\* other "%" stays
RECURSIVE UnquoteFrom(_, _)
UnquoteFrom(s, p) ==
    IF p > Len(s) THEN << >>
    ELSE IF s[p] = "%" /\ p + 2 <= Len(s) /\ IsHex(s[p + 1]) /\ IsHex(s[p + 2])
         THEN << Chr(16 * HexVal(s[p + 1]) + HexVal(s[p + 2])) >>
              \o UnquoteFrom(s, p + 3)
         ELSE << s[p] >> \o UnquoteFrom(s, p + 1)

\* urllib.parse.unquote_plus(string, encoding='utf-8')
unquote_plus(s) == UnquoteFrom(Replace(s, << "+" >>, << " " >>), 1)

----------------------------------------------------------------------------
(* Dictionaries: a dict is the sequence of its <<key, value>> pairs in     *)
(* insertion order                                                          *)

\* d[k] = v
DictPut(d, k, v) ==
    IF \E n \in 1..Len(d) : d[n][1] = k
    THEN [ n \in 1..Len(d) |-> IF d[n][1] = k THEN << k, v >> ELSE d[n] ]
    ELSE Append(d, << k, v >>)

\* {key.replace("x-amz-meta-", ""): d[key] for key in d.keys()}
RECURSIVE StripFrom(_, _, _)
StripFrom(d, n, acc) ==
    IF n > Len(d) THEN acc
    ELSE StripFrom(d, n + 1,
                   DictPut(acc, Replace(d[n][1], MetaPrefix, << >>), d[n][2]))

StripMetaPrefix(d) == StripFrom(d, 1, << >>)

----------------------------------------------------------------------------
(* Exceptions *)

Exc(service, name, cause) == [ service |-> service, name |-> name, cause |-> cause ]
NoExc == Exc("", "", "")

\* the exceptions index_faces documents, as classes of rekognition_client.exceptions
NamedFailures == { "InvalidS3ObjectException", "ImageTooLargeException",
                   "AccessDeniedException", "InternalServerError",
                   "ThrottlingException",
                   "ProvisionedThroughputExceededException",
                   "ResourceNotFoundException", "InvalidImageFormatException",
                   "ServiceQuotaExceededException" }

\* what index_faces can raise.  InvalidParameterException is raised for an
\* image without a face and for a malformed request alike; the cause is not
\* visible in the exception's class.
RekognitionErrors ==
    { Exc("rekognition", n, "") : n \in NamedFailures }
    \cup { Exc("rekognition", "InvalidParameterException", c) :
               c \in { "no_face", "malformed" } }
    \cup { Exc("botocore", "EndpointConnectionError", "") }

\* what loading s3_object.metadata can raise: botocore ClientErrors of S3
S3Errors == { Exc("s3", "AccessDenied", ""), Exc("s3", "NoSuchKey", "") }

\* what dynamodb_table.put_item can raise: classes of the DynamoDB client
DynamoErrors == { Exc("dynamodb", "ProvisionedThroughputExceededException", "") }

----------------------------------------------------------------------------
(* Values of the handler *)

\* {'statusCode': code, 'data': None}
Response(code) ==
    [ kind |-> "return", isNone |-> FALSE, statusCode |-> code, data |-> "None",
      exc |-> NoExc ]

\* the function ends without a return statement: the caller receives None
ReturnNone ==
    [ kind |-> "return", isNone |-> TRUE, statusCode |-> 0, data |-> "None",
      exc |-> NoExc ]

\* an exception leaves lambda_handler
Raised(e) ==
    [ kind |-> "raise", isNone |-> FALSE, statusCode |-> 0, data |-> "None",
      exc |-> e ]

Running ==
    [ kind |-> "running", isNone |-> FALSE, statusCode |-> 0, data |-> "None",
      exc |-> NoExc ]

----------------------------------------------------------------------------
(* Inputs *)

EventSources == { "aws:s3", "aws:sns" }
EventNames == { "ObjectCreated:Put", "ObjectCreated:Copy" }
Buckets == { "b", "c" }

\* percent-encoded object keys: "i%2B1" and "a+b"
RawKeys == { << "i", "%", "2", "B", "1" >>, << "a", "+", "b" >> }

\* one entry of event["Records"]
RecordPool ==
    { [ eventSource |-> src, eventName |-> name,
        s3 |-> [ bucket |-> [ name |-> b ], object |-> [ key |-> k ] ] ] :
      src \in EventSources, name \in EventNames, b \in Buckets, k \in RawKeys }

SeqsUpTo(S, n) == UNION { [ 1..m -> S ] : m \in 0..n }

\* the records after the first: the handler reads eventName from records[0]
\* only (line 70), the later records carry the creation marker
LaterPool == { r \in RecordPool : r.eventName = "ObjectCreated:Put" }

\* event["Records"]: empty, or a first record followed by later ones
RecordLists ==
    { << >> }
    \cup { << first >> \o rest :
              first \in RecordPool, rest \in SeqsUpTo(LaterPool, MaxRecords - 1) }

\* a notification: a dict without "Records", or one whose "Records" is a list
Events ==
    { [ hasRecords |-> FALSE, Records |-> << >> ] }
    \cup { [ hasRecords |-> TRUE, Records |-> rs ] : rs \in RecordLists }

\* s3_object.metadata as S3 returns it: {"x-amz-meta-n": "v1", "m": "v2"}
MetaPool ==
    { << << MetaPrefix \o << "n" >>, "v1" >>, << << "m" >>, "v2" >> >> }

\* a Python float, by its repr: digits * 10^exp
Float(digits, exp) == [ type |-> "float", digits |-> digits, exp |-> exp ]

\* the "Face" of a FaceRecord
FacePool ==
    { [ FaceId |-> "f1", Confidence |-> Float(981, -3) ],
      [ FaceId |-> "f2", Confidence |-> Float(754, -3) ] }

\* faces["FaceRecords"]: at most MaxFaces=MAX_FACES entries
FaceRecordLists == SeqsUpTo({ [ Face |-> f ] : f \in FacePool }, MAX_FACES)

----------------------------------------------------------------------------
(* lambda_handler *)

\* SanityChecks without the test for the "Records" key: event["Records"]
\* raises KeyError
SanityChecksNoKeyTest(ev) ==
    IF ~ev.hasRecords THEN Raised(Exc("builtins", "KeyError", ""))
    ELSE IF Len(ev.Records) = 0 THEN Raised(Exc("builtins", "IndexError", ""))
    ELSE IF ev.Records[1].eventSource # "aws:s3" THEN Response(401)
    ELSE Running

\* SanityChecks testing the eventSource of the last record, records[-1]
SanityChecksLastRecord(ev) ==
    IF ~ev.hasRecords THEN Response(500)
    ELSE IF Len(ev.Records) = 0 THEN Raised(Exc("builtins", "IndexError", ""))
    ELSE IF ev.Records[Len(ev.Records)].eventSource # "aws:s3" THEN Response(401)
    ELSE Running

\* SanityChecks rejecting an event whose first record is not an
\* ObjectCreated:Put, where the code only prints a warning (lines 70-73)
SanityChecksPutOnly(ev) ==
    IF ~ev.hasRecords THEN Response(500)
    ELSE IF Len(ev.Records) = 0 THEN Raised(Exc("builtins", "IndexError", ""))
    ELSE IF ev.Records[1].eventSource # "aws:s3" THEN Response(401)
    ELSE IF ev.Records[1].eventName # "ObjectCreated:Put" THEN Response(401)
    ELSE Running

\* lines 59-68: the sanity checks; Running when the event passes them
SanityChecks(ev) ==
    IF ~ev.hasRecords THEN Response(500)
    ELSE IF Len(ev.Records) = 0 THEN Raised(Exc("builtins", "IndexError", ""))
    ELSE IF ev.Records[1].eventSource # "aws:s3" THEN Response(401)
    ELSE Running

\* line 77: the bucket every record of the notification is processed with
BucketName(records) == records[1].s3.bucket.name

\* StatusCode with the codes of AccessDeniedException and ThrottlingException
\* exchanged
StatusCodeSwapped(name) ==
    CASE name = "InvalidS3ObjectException" -> 406
      [] name = "InvalidParameterException" -> 200
      [] name = "ImageTooLargeException" -> 406
      [] name = "AccessDeniedException" -> 401
      [] name = "InternalServerError" -> 500
      [] name = "ThrottlingException" -> 403
      [] name = "ProvisionedThroughputExceededException" -> 401
      [] name = "ResourceNotFoundException" -> 404
      [] name = "InvalidImageFormatException" -> 406
      [] name = "ServiceQuotaExceededException" -> 401
      [] OTHER -> 0

\* StatusCode without the clause for InvalidParameterException
StatusCodeNoInvalidParameter(name) ==
    CASE name = "InvalidS3ObjectException" -> 406
      [] name = "ImageTooLargeException" -> 406
      [] name = "AccessDeniedException" -> 403
      [] name = "InternalServerError" -> 500
      [] name = "ThrottlingException" -> 401
      [] name = "ProvisionedThroughputExceededException" -> 401
      [] name = "ResourceNotFoundException" -> 404
      [] name = "InvalidImageFormatException" -> 406
      [] name = "ServiceQuotaExceededException" -> 401
      [] OTHER -> 0

\* lines 118-147: the status code of each except clause; 0 when no clause
\* names the class
StatusCode(name) ==
    CASE name = "InvalidS3ObjectException" -> 406
      [] name = "InvalidParameterException" -> 200
      [] name = "ImageTooLargeException" -> 406
      [] name = "AccessDeniedException" -> 403
      [] name = "InternalServerError" -> 500
      [] name = "ThrottlingException" -> 401
      [] name = "ProvisionedThroughputExceededException" -> 401
      [] name = "ResourceNotFoundException" -> 404
      [] name = "InvalidImageFormatException" -> 406
      [] name = "ServiceQuotaExceededException" -> 401
      [] OTHER -> 0

\* ExceptClauses matching an exception by the name of its class only, whatever
\* client the class belongs to
ExceptClausesByName(e) ==
    IF StatusCode(e.name) # 0
    THEN Response(StatusCode(e.name))
    ELSE Raised(e)

\* lines 118-149: the except clauses name classes of
\* rekognition_client.exceptions; anything else is re-raised
ExceptClauses(e) ==
    IF e.service = "rekognition" /\ StatusCode(e.name) # 0
    THEN Response(StatusCode(e.name))
    ELSE Raised(e)

\* json.loads(json.dumps(face), parse_float=Decimal): every float becomes the
\* Decimal of its repr, strings and dicts of strings come back unchanged
ParseFloat(x) == [ type |-> "Decimal", digits |-> x.digits, exp |-> x.exp ]
JsonRoundTrip(face) == [ face EXCEPT !.Confidence = ParseFloat(@) ]

\* Item without face["metadata"] = metadata
ItemWithoutMetadata(faceRecord, bucket, k, md) ==
    JsonRoundTrip([ FaceId |-> faceRecord.Face.FaceId,
                    Confidence |-> faceRecord.Face.Confidence,
                    bucket |-> bucket, key |-> k, metadata |-> << >> ])

\* lines 111-115: the item put for one FaceRecord
Item(faceRecord, bucket, k, md) ==
    JsonRoundTrip([ FaceId |-> faceRecord.Face.FaceId,
                    Confidence |-> faceRecord.Face.Confidence,
                    bucket |-> bucket, key |-> k, metadata |-> md ])

\* one collaborator call, as issued while processing record `rec`
Call(op, rec, bucket, k, e) ==
    [ op |-> op, rec |-> rec, bucket |-> bucket, key |-> k, exc |-> e ]

\* the item list of the table after dynamodb_table.put_item(Item=item) when
\* put_item answers with table = <<item>>: the earlier items are lost
put_itemReplacing(t, item) == << item >>

\* line 116: dynamodb_table.put_item(Item=item) adds the item to the table
put_item(t, item) == Append(t, item)

\* the local variables of one invocation of lambda_handler
Frame ==
    [ event |-> event, pc |-> pc, outcome |-> outcome,
      s3_bucket_name |-> s3_bucket_name, idx |-> idx, key |-> key,
      object_metadata |-> object_metadata, metadata |-> metadata,
      faces |-> faces, faceIdx |-> faceIdx, calls |-> calls ]

\* the locals of an invocation of lambda_handler(ev, context) before its
\* first statement
NewFrame(ev) ==
    [ event |-> ev, pc |-> "start", outcome |-> Running,
      s3_bucket_name |-> "", idx |-> 0, key |-> << >>,
      object_metadata |-> << >>, metadata |-> << >>,
      faces |-> << >>, faceIdx |-> 0, calls |-> << >> ]

\* no second invocation
NoInvocation ==
    [ NewFrame([ hasRecords |-> FALSE, Records |-> << >> ]) EXCEPT !.pc = "absent" ]

Init ==
    /\ event \in Events
    /\ pc = "start"
    /\ outcome = Running
    /\ s3_bucket_name = ""
    /\ idx = 0
    /\ key = << >>
    /\ object_metadata = << >>
    /\ metadata = << >>
    /\ faces = << >>
    /\ faceIdx = 0
    /\ calls = << >>
    /\ table = << >>
    /\ other = NoInvocation
    /\ who = 1

\* EnterRecord with a test of each record's own eventSource
EnterRecordChecked(ev, i) ==
    IF i <= Len(ev.Records) /\ ev.Records[i].eventSource # "aws:s3"
    THEN /\ idx' = i
         /\ key' = key
         /\ pc' = "done"
         /\ outcome' = Response(401)
    ELSE IF i <= Len(ev.Records)
    THEN /\ idx' = i
         /\ key' = unquote_plus(ev.Records[i].s3.object.key)
         /\ pc' = "fetch_metadata"
         /\ outcome' = outcome
    ELSE /\ idx' = idx
         /\ key' = key
         /\ pc' = "done"
         /\ outcome' = ReturnNone

\* line 78-79: the for loop over the records of event ev takes record i, or
\* ends and the function returns None
EnterRecord(ev, i) ==
    IF i <= Len(ev.Records)
    THEN /\ idx' = i
         /\ key' = unquote_plus(ev.Records[i].s3.object.key)
         /\ pc' = "fetch_metadata"
         /\ outcome' = outcome
    ELSE /\ idx' = idx
         /\ key' = key
         /\ pc' = "done"
         /\ outcome' = ReturnNone

\* Except swallowing the exception: the loop goes on with the next record
ExceptContinue(e) == EnterRecord(event, idx + 1)

\* Except repeating the step that raised
ExceptRetry(e) ==
    /\ outcome' = outcome
    /\ pc' = pc
    /\ UNCHANGED << idx, key >>

\* lines 118-149: exception e leaves the try block
Except(e) ==
    /\ outcome' = ExceptClauses(e)
    /\ pc' = "done"
    /\ UNCHANGED << idx, key >>

\* lines 59-79, on event ev
ValidateOn(ev) ==
    /\ pc = "start"
    /\ IF SanityChecks(ev).kind # "running"
       THEN /\ outcome' = SanityChecks(ev)
            /\ pc' = "done"
            /\ UNCHANGED << s3_bucket_name, idx, key >>
       ELSE /\ s3_bucket_name' = BucketName(ev.Records)
            /\ EnterRecord(ev, 1)
    /\ UNCHANGED << event, object_metadata, metadata, faces, faceIdx, calls, table >>
    /\ UNCHANGED << other, who >>

\* lines 81-82
FetchMetadata ==
    /\ pc = "fetch_metadata"
    /\ \/ \E m \in MetaPool :
            /\ calls' = Append(calls, Call("metadata", idx, s3_bucket_name, key, NoExc))
            /\ object_metadata' = StripMetaPrefix(m)
            /\ pc' = "index_faces"
            /\ UNCHANGED << outcome, idx, key >>
       \/ \E e \in S3Errors :
            /\ calls' = Append(calls, Call("metadata", idx, s3_bucket_name, key, e))
            /\ Except(e)
            /\ UNCHANGED object_metadata
    /\ UNCHANGED << event, s3_bucket_name, metadata, faces, faceIdx, table >>
    /\ UNCHANGED << other, who >>

\* lines 93-110, on event ev
IndexFacesOn(ev) ==
    /\ pc = "index_faces"
    /\ \/ \E fr \in FaceRecordLists :
            /\ calls' = Append(calls, Call("index_faces", idx, s3_bucket_name, key, NoExc))
            /\ metadata' = StripMetaPrefix(object_metadata)
            /\ faces' = fr
            /\ IF fr = << >>
               THEN /\ EnterRecord(ev, idx + 1)
                    /\ UNCHANGED faceIdx
               ELSE /\ faceIdx' = 1
                    /\ pc' = "put_item"
                    /\ UNCHANGED << idx, key, outcome >>
       \/ \E e \in RekognitionErrors :
            /\ calls' = Append(calls, Call("index_faces", idx, s3_bucket_name, key, e))
            /\ Except(e)
            /\ UNCHANGED << metadata, faces, faceIdx >>
    /\ UNCHANGED << event, s3_bucket_name, object_metadata, table >>
    /\ UNCHANGED << other, who >>

\* lines 110-116, on event ev
PutItemOn(ev) ==
    /\ pc = "put_item"
    /\ LET item == Item(faces[faceIdx], s3_bucket_name, key, metadata) IN
       \/ /\ calls' = Append(calls, Call("put_item", idx, item.bucket, item.key, NoExc))
          /\ table' = put_item(table, item)
          /\ IF faceIdx < Len(faces)
             THEN /\ faceIdx' = faceIdx + 1
                  /\ UNCHANGED << pc, idx, key, outcome >>
             ELSE /\ EnterRecord(ev, idx + 1)
                  /\ UNCHANGED faceIdx
       \/ \E e \in DynamoErrors :
            /\ calls' = Append(calls, Call("put_item", idx, item.bucket, item.key, e))
            /\ Except(e)
            /\ UNCHANGED << table, faceIdx >>
    /\ UNCHANGED << event, s3_bucket_name, object_metadata, metadata, faces >>
    /\ UNCHANGED << other, who >>

\* one step of lambda_handler(ev, context)
lambda_handler(ev) ==
    ValidateOn(ev) \/ FetchMetadata \/ IndexFacesOn(ev) \/ PutItemOn(ev)

Validate == ValidateOn(event)
IndexFaces == IndexFacesOn(event)
PutItem == PutItemOn(event)

Next == Validate \/ FetchMetadata \/ IndexFaces \/ PutItem

Spec == Init /\ [][Next]_vars

----------------------------------------------------------------------------
(* Two invocations.  The clients of lines 45-51 are shared and hold no     *)
(* state of an invocation; each invocation has its own locals; the table   *)
(* is the one the two invocations write to.                                *)

\* the notifications of the two invocations: at most one record each
ConcEvents == { ev \in Events : Len(ev.Records) <= 1 }

InitConc ==
    /\ event \in ConcEvents
    /\ pc = "start"
    /\ outcome = Running
    /\ s3_bucket_name = ""
    /\ idx = 0
    /\ key = << >>
    /\ object_metadata = << >>
    /\ metadata = << >>
    /\ faces = << >>
    /\ faceIdx = 0
    /\ calls = << >>
    /\ table = << >>
    /\ other \in { NewFrame(ev) : ev \in ConcEvents }
    /\ who = 1

\* Switch with s3_bucket_name a module-level global: one value for both
\* invocations, not saved or restored
SwitchSharedBucket ==
    /\ other.pc \notin { "absent", "done" }
    /\ who' = 3 - who
    /\ other' = Frame
    /\ event' = other.event
    /\ pc' = other.pc
    /\ outcome' = other.outcome
    /\ s3_bucket_name' = s3_bucket_name
    /\ idx' = other.idx
    /\ key' = other.key
    /\ object_metadata' = other.object_metadata
    /\ metadata' = other.metadata
    /\ faces' = other.faces
    /\ faceIdx' = other.faceIdx
    /\ calls' = other.calls
    /\ UNCHANGED table

\* the runtime lets the other invocation run: the locals of lambda_handler
\* (lines 63-115) belong to the invocation, the table does not
Switch ==
    /\ other.pc \notin { "absent", "done" }
    /\ who' = 3 - who
    /\ other' = Frame
    /\ event' = other.event
    /\ pc' = other.pc
    /\ outcome' = other.outcome
    /\ s3_bucket_name' = other.s3_bucket_name
    /\ idx' = other.idx
    /\ key' = other.key
    /\ object_metadata' = other.object_metadata
    /\ metadata' = other.metadata
    /\ faces' = other.faces
    /\ faceIdx' = other.faceIdx
    /\ calls' = other.calls
    /\ UNCHANGED table

NextConc == Validate \/ FetchMetadata \/ IndexFaces \/ PutItem \/ Switch

SpecConc == InitConc /\ [][NextConc]_vars

----------------------------------------------------------------------------
(* Properties *)

Done == pc = "done"

\* the handler returned {'statusCode': code, 'data': None}
Returned(code) ==
    /\ outcome.kind = "return"
    /\ ~outcome.isNone
    /\ outcome.statusCode = code
    /\ outcome.data = "None"

\* the handler issued a put_item while processing record r
StoreWriteFor(r) == \E m \in DOMAIN calls : calls[m].op = "put_item" /\ calls[m].rec = r

\* recognition was invoked for record r
RecognitionFor(r) == \E m \in DOMAIN calls : calls[m].op = "index_faces" /\ calls[m].rec = r

\* call n is an index_faces that raised the rekognition exception `name`
RecognitionRaised(n, name) ==
    /\ calls[n].op = "index_faces"
    /\ calls[n].exc.service = "rekognition"
    /\ calls[n].exc.name = name

\* the event passes the sanity checks and has records to process
Actionable ==
    /\ event.hasRecords
    /\ Len(event.Records) >= 1
    /\ event.Records[1].eventSource = "aws:s3"

\* the response codes the specification documents for the named failures
DocumentedCode ==
    [ n \in NamedFailures |->
        CASE n \in { "InvalidS3ObjectException", "ImageTooLargeException",
                     "InvalidImageFormatException" } -> 406
          [] n = "AccessDeniedException" -> 403
          [] n = "ResourceNotFoundException" -> 404
          [] n = "InternalServerError" -> 500
          [] n \in { "ThrottlingException",
                     "ProvisionedThroughputExceededException",
                     "ServiceQuotaExceededException" } -> 401 ]

\* C1: when every record of the notification was processed without a failure
\* and recognition returned at least one face, the handler returns
\* {statusCode: 200, data: null}.
C1_SuccessReturns200 ==
    ( /\ Done
      /\ Actionable
      /\ \A n \in DOMAIN calls : calls[n].exc = NoExc
      /\ \A r \in 1..Len(event.Records) : RecognitionFor(r)
      /\ Len(table) >= 1 )
    => Returned(200)

\* C2: each of the nine named failures raised by index_faces ends the
\* invocation with its documented code, and no put_item is issued for the
\* record whose recognition failed.
C2_NamedFailureCodes ==
    \A n \in DOMAIN calls :
        ( /\ calls[n].op = "index_faces"
          /\ calls[n].exc.service = "rekognition"
          /\ calls[n].exc.name \in NamedFailures )
        => /\ Done
           /\ Returned(DocumentedCode[calls[n].exc.name])
           /\ ~StoreWriteFor(calls[n].rec)

\* C2 witness: recognition of the second record is throttled after a face of
\* the first record was stored.
C2_Witness ==
    /\ Len(table) >= 1
    /\ \E n \in DOMAIN calls :
          RecognitionRaised(n, "ThrottlingException") /\ calls[n].rec = 2

\* C3: InvalidParameterException raised because the image shows no face gives
\* statusCode 200 and no put_item for that record.
C3_NoFaceIs200 ==
    \A n \in DOMAIN calls :
        ( RecognitionRaised(n, "InvalidParameterException")
          /\ calls[n].exc.cause = "no_face" )
        => /\ Done
           /\ Returned(200)
           /\ ~StoreWriteFor(calls[n].rec)

\* C3 witness: index_faces reported no face and the handler has ended.
C3_Witness ==
    /\ Done
    /\ \E n \in DOMAIN calls :
          /\ RecognitionRaised(n, "InvalidParameterException")
          /\ calls[n].exc.cause = "no_face"

\* C4: after a no-face result for record i, recognition is still invoked for
\* every later record before the handler ends.
C4_NoFaceContinues ==
    \A n \in DOMAIN calls :
        ( /\ Done
          /\ RecognitionRaised(n, "InvalidParameterException")
          /\ calls[n].exc.cause = "no_face" )
        => \A r \in (calls[n].rec + 1)..Len(event.Records) : RecognitionFor(r)

\* C5: InvalidParameterException raised for a malformed request (not for a
\* missing face) is not reported as success with statusCode 200.
C5_MalformedIsNot200 ==
    \A n \in DOMAIN calls :
        ( RecognitionRaised(n, "InvalidParameterException")
          /\ calls[n].exc.cause = "malformed" )
        => ~Returned(200)

\* C6: a notification whose Records list is present and empty is a no-op: the
\* handler ends without raising, without any collaborator call and without a
\* failure code.
C6_EmptyRecordsNoOp ==
    ( Done /\ event.hasRecords /\ Len(event.Records) = 0 )
    => /\ outcome.kind = "return"
       /\ calls = << >>
       /\ (outcome.isNone \/ outcome.statusCode = 200)

\* C7: a notification without a Records key gives statusCode 500 with data
\* null, and no metadata, recognition or store call is issued.
C7_MissingRecords500 ==
    ~event.hasRecords
    => /\ calls = << >>
       /\ table = << >>
       /\ (Done => Returned(500))
       /\ (~Done => pc = "start")

\* C7 witness: the handler has ended on a notification without Records.
C7_Witness == ~event.hasRecords /\ Done

\* C8: when the first record's eventSource is not "aws:s3" the handler
\* returns statusCode 401 and never issues a recognition call or store write.
C8_UnsupportedSource401 ==
    ( /\ event.hasRecords
      /\ Len(event.Records) >= 1
      /\ event.Records[1].eventSource # "aws:s3" )
    => /\ \A n \in DOMAIN calls : calls[n].op \notin { "index_faces", "put_item" }
       /\ table = << >>
       /\ (Done => Returned(401))
       /\ (~Done => pc = "start")

\* C8 witness: the handler has ended on a notification whose first record
\* comes from another service and whose second record comes from S3.
C8_Witness ==
    /\ Done
    /\ event.hasRecords
    /\ Len(event.Records) = 2
    /\ event.Records[1].eventSource # "aws:s3"
    /\ event.Records[2].eventSource = "aws:s3"

\* C9: every metadata fetch, recognition call and stored item of a record
\* uses the s3.bucket.name of that record.
C9_OwnBucket ==
    \A n \in DOMAIN calls :
        calls[n].bucket = event.Records[calls[n].rec].s3.bucket.name

\* C10: an access-denied failure of the storage collaborator during the
\* metadata fetch ends the invocation with statusCode 403, not with a raised
\* exception.
C10_MetadataAccessDenied403 ==
    \A n \in DOMAIN calls :
        ( calls[n].op = "metadata" /\ calls[n].exc = Exc("s3", "AccessDenied", "") )
        => Returned(403)

\* the record whose processing has just ended without a failure, while
\* `faces` still holds the recognition result of that record; 0 if none
LastCompleted ==
    IF pc \in { "fetch_metadata", "index_faces" } THEN idx - 1
    ELSE IF pc = "done" /\ outcome.isNone THEN idx
    ELSE 0

\* C11: when recognition returned K faces for a record and no store write
\* failed, exactly K put_item calls were issued for it, one per face in
\* order, each item carrying the same bucket, the decoded key of the record
\* and the same metadata mapping; distinct face identifiers give distinct
\* item identifiers.
C11_OneWritePerFace ==
    LastCompleted >= 1 =>
        LET r == LastCompleted
            K == Len(faces)
            base == Len(table) - K
        IN /\ Cardinality({ m \in DOMAIN calls :
                              calls[m].op = "put_item" /\ calls[m].rec = r }) = K
           /\ base >= 0
           /\ \A j \in 1..K :
                 /\ table[base + j].FaceId = faces[j].Face.FaceId
                 /\ table[base + j].bucket = s3_bucket_name
                 /\ table[base + j].key = unquote_plus(event.Records[r].s3.object.key)
                 /\ table[base + j].metadata = metadata
           /\ ( (\A j, k \in 1..K : j # k => faces[j].Face.FaceId # faces[k].Face.FaceId)
                => \A j, k \in 1..K :
                      j # k => table[base + j].FaceId # table[base + k].FaceId )

\* C11 witness: the second record ended after both of its two faces, with
\* distinct identifiers, were stored.
C11_Witness ==
    /\ pc = "done"
    /\ LastCompleted = 2
    /\ Len(faces) = 2
    /\ faces[1].Face.FaceId # faces[2].Face.FaceId

\* call c raised one of the nine named recognition failures
ClassifiedFailure(c) ==
    /\ c.op = "index_faces"
    /\ c.exc.service = "rekognition"
    /\ c.exc.name \in NamedFailures

\* C12: once a named recognition failure occurs while processing record i,
\* the handler ends with that failure's code and issues no further call: no
\* metadata fetch, recognition call or store write for any record after i.
C12_AbortOnFirstFailure ==
    \A n \in DOMAIN calls :
        ClassifiedFailure(calls[n])
        => /\ Done
           /\ Returned(DocumentedCode[calls[n].exc.name])
           /\ n = Len(calls)
           /\ \A m \in DOMAIN calls : calls[m].rec <= calls[n].rec

\* C12 witness: recognition of the first of two records failed and the
\* handler has ended.
C12_Witness ==
    /\ Done
    /\ Len(event.Records) = 2
    /\ \E n \in DOMAIN calls : ClassifiedFailure(calls[n]) /\ calls[n].rec = 1

\* the put_item calls that did not raise, in order
OkPuts == SelectSeq(calls, LAMBDA c : c.op = "put_item" /\ c.exc = NoExc)

\* the invocation ended with a failure: a classified code or a raised exception
Failed == Done /\ (outcome.kind = "raise" \/ ~outcome.isNone)

Unclassified(c) ==
    /\ c.exc # NoExc
    /\ ~( /\ c.exc.service = "rekognition"
          /\ c.exc.name \in NamedFailures \cup { "InvalidParameterException" } )

\* C14: an exception of any step that is not one of the enumerated
\* recognition failures leaves the handler as that exception: no response
\* code is returned and no further call is issued.
C14_UnclassifiedReraised ==
    \A n \in DOMAIN calls :
        Unclassified(calls[n])
        => /\ Done
           /\ outcome = Raised(calls[n].exc)
           /\ n = Len(calls)

\* C14 witness: put_item raised the DynamoDB exception whose class name is
\* also the name of a recognition failure, while a second record waits.
C14_Witness ==
    /\ Done
    /\ Len(event.Records) = 2
    /\ calls # << >>
    /\ calls[Len(calls)].op = "put_item"
    /\ calls[Len(calls)].rec = 1
    /\ calls[Len(calls)].exc.service = "dynamodb"

\* C17: the calls follow the protocol: the first call is the metadata fetch
\* of record 1; a call is only followed by another when it did not raise; a
\* recognition call directly follows the metadata fetch of the same record;
\* a store write follows the recognition call or a store write of the same
\* record; a metadata fetch of record i+1 follows the recognition call or a
\* store write of record i, and by then every face of record i was written.
C17_SequentialProtocol ==
    /\ \A n \in DOMAIN calls :
          IF n = 1
          THEN calls[n].op = "metadata" /\ calls[n].rec = 1
          ELSE /\ calls[n - 1].exc = NoExc
               /\ CASE calls[n].op = "metadata" ->
                         /\ calls[n - 1].op \in { "index_faces", "put_item" }
                         /\ calls[n].rec = calls[n - 1].rec + 1
                    [] calls[n].op = "index_faces" ->
                         /\ calls[n - 1].op = "metadata"
                         /\ calls[n].rec = calls[n - 1].rec
                    [] calls[n].op = "put_item" ->
                         /\ calls[n - 1].op \in { "index_faces", "put_item" }
                         /\ calls[n].rec = calls[n - 1].rec
    /\ LastCompleted >= 1
       => Cardinality({ m \in DOMAIN calls :
                          /\ calls[m].op = "put_item"
                          /\ calls[m].rec = LastCompleted
                          /\ calls[m].exc = NoExc }) = Len(faces)

\* C17 witness: two records were processed, each with a metadata fetch, a
\* recognition call and a store write.
C17_Witness ==
    /\ Done
    /\ outcome.isNone
    /\ StoreWriteFor(1)
    /\ StoreWriteFor(2)

\* C18: when the first record comes from "aws:s3", no later record is
\* rejected for its own eventSource: a 401 only answers a throttling or quota
\* failure of recognition, and an invocation ending without failure has
\* fetched the metadata and invoked recognition for every record.
C18_OnlyFirstSourceChecked ==
    Actionable
    => /\ Returned(401)
          => /\ calls # << >>
             /\ calls[Len(calls)].exc.name \in
                   { "ThrottlingException",
                     "ProvisionedThroughputExceededException",
                     "ServiceQuotaExceededException" }
       /\ (Done /\ outcome.isNone)
          => \A r \in 1..Len(event.Records) :
                /\ RecognitionFor(r)
                /\ \E m \in DOMAIN calls :
                      calls[m].op = "metadata" /\ calls[m].rec = r

\* C18 witness: a second record whose eventSource is not "aws:s3" had its
\* faces recognised and stored.
C18_Witness ==
    /\ Actionable
    /\ Len(event.Records) = 2
    /\ event.Records[2].eventSource # "aws:s3"
    /\ RecognitionFor(2)
    /\ StoreWriteFor(2)

\* event ev with the eventName of its first record replaced
WithEventName(ev, name) ==
    IF ev.hasRecords /\ Len(ev.Records) >= 1
    THEN [ ev EXCEPT !.Records[1].eventName = name ]
    ELSE ev

\* C15: the first record's eventName decides nothing: every step the handler
\* takes (next position, locals, collaborator call, stored item, return
\* value) is the step it takes on the same notification with any other
\* eventName in its first record.
C15_EventNameIrrelevant ==
    [][ \A name \in EventNames : lambda_handler(WithEventName(event, name)) ]_vars

\* C15 witness: a notification whose first record is not an
\* ObjectCreated:Put was processed to the end and a face was stored.
C15_Witness ==
    /\ Actionable
    /\ event.Records[1].eventName # "ObjectCreated:Put"
    /\ Done
    /\ outcome.isNone
    /\ Len(table) >= 1

\* what lambda_handler(ev) gives when it runs alone and its collaborators
\* answer as logged in cs
AloneOutcome(ev, cs) ==
    IF SanityChecks(ev).kind # "running" THEN SanityChecks(ev)
    ELSE IF cs # << >> /\ cs[Len(cs)].exc # NoExc
         THEN ExceptClauses(cs[Len(cs)].exc)
         ELSE ReturnNone

\* the calls and the result of the invocation with locals f are those of its
\* own event
OwnResults(f) ==
    /\ \A n \in DOMAIN f.calls :
          /\ f.calls[n].bucket = BucketName(f.event.Records)
          /\ f.calls[n].key =
                unquote_plus(f.event.Records[f.calls[n].rec].s3.object.key)
    /\ f.pc = "done" => f.outcome = AloneOutcome(f.event, f.calls)

\* the <<bucket, key>> of the put_item calls of log cs that did not raise
Written(cs) ==
    { << cs[n].bucket, cs[n].key >> :
         n \in { m \in DOMAIN cs : cs[m].op = "put_item" /\ cs[m].exc = NoExc } }

OkPutCount(cs) ==
    Cardinality({ m \in DOMAIN cs : cs[m].op = "put_item" /\ cs[m].exc = NoExc })

\* C16: under every interleaving of two invocations, each invocation's calls
\* and return value are those of its own notification and its own
\* collaborator answers, and the table holds the items the two wrote, no
\* more and no fewer.
C16_NoInterference ==
    /\ OwnResults(Frame)
    /\ OwnResults(other)
    /\ Len(table) = OkPutCount(calls) + OkPutCount(other.calls)
    /\ \A j \in DOMAIN table :
          << table[j].bucket, table[j].key >> \in Written(calls) \cup Written(other.calls)

\* C16 witness: two invocations for different buckets have both ended, and
\* their store writes alternated.
C16_Witness ==
    /\ Done
    /\ other.pc = "done"
    /\ Len(table) = 4
    /\ table[1].bucket = table[3].bucket
    /\ table[2].bucket = table[4].bucket
    /\ table[1].bucket # table[2].bucket

====
